---------------------------- MODULE Spec2Model ----------------------------
(***************************************************************************)
(* doc/v0.1.1/chill/path/sidebar-items.js: the sidebar manifest of the     *)
(* chill::path module.  The file is one expression statement,              *)
(*                                                                         *)
(*     initSidebarItems({"constant":[...],"enum":[...],                    *)
(*                       "struct":[...],"trait":[...]});                   *)
(*                                                                         *)
(* The model is the evaluation of that statement: the object literal is    *)
(* built property by property, each property's array literal element by    *)
(* element, each element string by string, and the finished object is      *)
(* passed to initSidebarItems.  initSidebarItems itself belongs to the      *)
(* page that loads the file; the model records the call and its argument   *)
(* list and nothing of what the callee does.                               *)
(*                                                                         *)
(* A string is modelled as the sequence of its characters, so that the     *)
(* naming conventions (suffixes, prefixes, ordering) are computed from the *)
(* text rather than assumed.                                               *)
(***************************************************************************)
EXTENDS Naturals, Sequences, FiniteSets

VARIABLES pc, p, e, s, cur, arr, items, calls

vars == <<pc, p, e, s, cur, arr, items, calls>>

-----------------------------------------------------------------------------
(* The source text of the object literal.                                  *)

\* The array literal of the "constant" property, in source order: each element is
\* the two-string array [name, description], a string being its sequence of
\* characters.
ConstantLiteral ==
     \* ["DESIGN_PREFIX",""]
  << << <<"D","E","S","I","G","N","_","P","R","E","F","I","X">>,
        <<>> >>,
     \* ["LOCAL_PREFIX",""]
     << <<"L","O","C","A","L","_","P","R","E","F","I","X">>,
        <<>> >>,
     \* ["VIEW_PREFIX",""]
     << <<"V","I","E","W","_","P","R","E","F","I","X">>,
        <<>> >> >>

\* The array literal of the "enum" property, in source order: each element is
\* the two-string array [name, description], a string being its sequence of
\* characters.
EnumLiteral ==
     \* ["DocumentId",""]
  << << <<"D","o","c","u","m","e","n","t","I","d">>,
        <<>> >>,
     \* ["DocumentIdRef",""]
     << <<"D","o","c","u","m","e","n","t","I","d","R","e","f">>,
        <<>> >> >>

\* The array literal of the "struct" property, in source order: each element is
\* the two-string array [name, description], a string being its sequence of
\* characters.
StructLiteral ==
     \* ["AttachmentName","A heap-allocated attachment  name, owned and managed internally."]
  << << <<"A","t","t","a","c","h","m","e","n","t","N","a","m","e">>,
        <<"A"," ","h","e","a","p","-","a","l","l","o","c","a","t","e","d"," ","a","t","t","a","c","h","m","e","n","t"," "," ","n","a","m","e",","," ","o","w","n","e","d"," ","a","n","d"," ","m","a","n","a","g","e","d"," ","i","n","t","e","r","n","a","l","l","y",".">> >>,
     \* ["AttachmentNameRef","A reference to a attachment  name, owned elsewhere."]
     << <<"A","t","t","a","c","h","m","e","n","t","N","a","m","e","R","e","f">>,
        <<"A"," ","r","e","f","e","r","e","n","c","e"," ","t","o"," ","a"," ","a","t","t","a","c","h","m","e","n","t"," "," ","n","a","m","e",","," ","o","w","n","e","d"," ","e","l","s","e","w","h","e","r","e",".">> >>,
     \* ["AttachmentPath",""]
     << <<"A","t","t","a","c","h","m","e","n","t","P","a","t","h">>,
        <<>> >>,
     \* ["AttachmentPathRef",""]
     << <<"A","t","t","a","c","h","m","e","n","t","P","a","t","h","R","e","f">>,
        <<>> >>,
     \* ["DatabaseName","A heap-allocated database  name, owned and managed internally."]
     << <<"D","a","t","a","b","a","s","e","N","a","m","e">>,
        <<"A"," ","h","e","a","p","-","a","l","l","o","c","a","t","e","d"," ","d","a","t","a","b","a","s","e"," "," ","n","a","m","e",","," ","o","w","n","e","d"," ","a","n","d"," ","m","a","n","a","g","e","d"," ","i","n","t","e","r","n","a","l","l","y",".">> >>,
     \* ["DatabaseNameRef","A reference to a database  name, owned elsewhere."]
     << <<"D","a","t","a","b","a","s","e","N","a","m","e","R","e","f">>,
        <<"A"," ","r","e","f","e","r","e","n","c","e"," ","t","o"," ","a"," ","d","a","t","a","b","a","s","e"," "," ","n","a","m","e",","," ","o","w","n","e","d"," ","e","l","s","e","w","h","e","r","e",".">> >>,
     \* ["DatabasePath",""]
     << <<"D","a","t","a","b","a","s","e","P","a","t","h">>,
        <<>> >>,
     \* ["DatabasePathRef",""]
     << <<"D","a","t","a","b","a","s","e","P","a","t","h","R","e","f">>,
        <<>> >>,
     \* ["DesignDocumentName","A heap-allocated design document  name, owned and managed internally."]
     << <<"D","e","s","i","g","n","D","o","c","u","m","e","n","t","N","a","m","e">>,
        <<"A"," ","h","e","a","p","-","a","l","l","o","c","a","t","e","d"," ","d","e","s","i","g","n"," ","d","o","c","u","m","e","n","t"," "," ","n","a","m","e",","," ","o","w","n","e","d"," ","a","n","d"," ","m","a","n","a","g","e","d"," ","i","n","t","e","r","n","a","l","l","y",".">> >>,
     \* ["DesignDocumentNameRef","A reference to a design document  name, owned elsewhere."]
     << <<"D","e","s","i","g","n","D","o","c","u","m","e","n","t","N","a","m","e","R","e","f">>,
        <<"A"," ","r","e","f","e","r","e","n","c","e"," ","t","o"," ","a"," ","d","e","s","i","g","n"," ","d","o","c","u","m","e","n","t"," "," ","n","a","m","e",","," ","o","w","n","e","d"," ","e","l","s","e","w","h","e","r","e",".">> >>,
     \* ["DesignDocumentPath",""]
     << <<"D","e","s","i","g","n","D","o","c","u","m","e","n","t","P","a","t","h">>,
        <<>> >>,
     \* ["DesignDocumentPathRef",""]
     << <<"D","e","s","i","g","n","D","o","c","u","m","e","n","t","P","a","t","h","R","e","f">>,
        <<>> >>,
     \* ["DocumentPath",""]
     << <<"D","o","c","u","m","e","n","t","P","a","t","h">>,
        <<>> >>,
     \* ["DocumentPathRef",""]
     << <<"D","o","c","u","m","e","n","t","P","a","t","h","R","e","f">>,
        <<>> >>,
     \* ["LocalDocumentName","A heap-allocated local document  name, owned and managed internally."]
     << <<"L","o","c","a","l","D","o","c","u","m","e","n","t","N","a","m","e">>,
        <<"A"," ","h","e","a","p","-","a","l","l","o","c","a","t","e","d"," ","l","o","c","a","l"," ","d","o","c","u","m","e","n","t"," "," ","n","a","m","e",","," ","o","w","n","e","d"," ","a","n","d"," ","m","a","n","a","g","e","d"," ","i","n","t","e","r","n","a","l","l","y",".">> >>,
     \* ["LocalDocumentNameRef","A reference to a local document  name, owned elsewhere."]
     << <<"L","o","c","a","l","D","o","c","u","m","e","n","t","N","a","m","e","R","e","f">>,
        <<"A"," ","r","e","f","e","r","e","n","c","e"," ","t","o"," ","a"," ","l","o","c","a","l"," ","d","o","c","u","m","e","n","t"," "," ","n","a","m","e",","," ","o","w","n","e","d"," ","e","l","s","e","w","h","e","r","e",".">> >>,
     \* ["NormalDocumentName","A heap-allocated normal document  name, owned and managed internally."]
     << <<"N","o","r","m","a","l","D","o","c","u","m","e","n","t","N","a","m","e">>,
        <<"A"," ","h","e","a","p","-","a","l","l","o","c","a","t","e","d"," ","n","o","r","m","a","l"," ","d","o","c","u","m","e","n","t"," "," ","n","a","m","e",","," ","o","w","n","e","d"," ","a","n","d"," ","m","a","n","a","g","e","d"," ","i","n","t","e","r","n","a","l","l","y",".">> >>,
     \* ["NormalDocumentNameRef","A reference to a normal document  name, owned elsewhere."]
     << <<"N","o","r","m","a","l","D","o","c","u","m","e","n","t","N","a","m","e","R","e","f">>,
        <<"A"," ","r","e","f","e","r","e","n","c","e"," ","t","o"," ","a"," ","n","o","r","m","a","l"," ","d","o","c","u","m","e","n","t"," "," ","n","a","m","e",","," ","o","w","n","e","d"," ","e","l","s","e","w","h","e","r","e",".">> >>,
     \* ["ViewName","A heap-allocated view  name, owned and managed internally."]
     << <<"V","i","e","w","N","a","m","e">>,
        <<"A"," ","h","e","a","p","-","a","l","l","o","c","a","t","e","d"," ","v","i","e","w"," "," ","n","a","m","e",","," ","o","w","n","e","d"," ","a","n","d"," ","m","a","n","a","g","e","d"," ","i","n","t","e","r","n","a","l","l","y",".">> >>,
     \* ["ViewNameRef","A reference to a view  name, owned elsewhere."]
     << <<"V","i","e","w","N","a","m","e","R","e","f">>,
        <<"A"," ","r","e","f","e","r","e","n","c","e"," ","t","o"," ","a"," ","v","i","e","w"," "," ","n","a","m","e",","," ","o","w","n","e","d"," ","e","l","s","e","w","h","e","r","e",".">> >>,
     \* ["ViewPath",""]
     << <<"V","i","e","w","P","a","t","h">>,
        <<>> >>,
     \* ["ViewPathRef",""]
     << <<"V","i","e","w","P","a","t","h","R","e","f">>,
        <<>> >> >>

\* The array literal of the "trait" property, in source order: each element is
\* the two-string array [name, description], a string being its sequence of
\* characters.
TraitLiteral ==
     \* ["IntoAttachmentPath",""]
  << << <<"I","n","t","o","A","t","t","a","c","h","m","e","n","t","P","a","t","h">>,
        <<>> >>,
     \* ["IntoDatabasePath",""]
     << <<"I","n","t","o","D","a","t","a","b","a","s","e","P","a","t","h">>,
        <<>> >>,
     \* ["IntoDesignDocumentPath",""]
     << <<"I","n","t","o","D","e","s","i","g","n","D","o","c","u","m","e","n","t","P","a","t","h">>,
        <<>> >>,
     \* ["IntoDocumentPath",""]
     << <<"I","n","t","o","D","o","c","u","m","e","n","t","P","a","t","h">>,
        <<>> >>,
     \* ["IntoViewPath",""]
     << <<"I","n","t","o","V","i","e","w","P","a","t","h">>,
        <<>> >> >>

\* seq without its i-th element.
Without(seq, i) == SubSeq(seq, 1, i - 1) \o SubSeq(seq, i + 1, Len(seq))

\* Fault variants of the object literal, each a manifest the generator could
\* have written instead; a property that still held of one of them would not
\* depend on the literal.
\*   the struct list without ViewNameRef
Source_NoViewNameRef ==
  << [key |-> "constant", value |-> ConstantLiteral],
     [key |-> "enum",     value |-> EnumLiteral],
     [key |-> "struct",   value |-> Without(StructLiteral, Len(StructLiteral) - 2)],
     [key |-> "trait",    value |-> TraitLiteral] >>

\*   the struct list without ViewPath and ViewPathRef
Source_NoViewPath ==
  << [key |-> "constant", value |-> ConstantLiteral],
     [key |-> "enum",     value |-> EnumLiteral],
     [key |-> "struct",   value |-> SubSeq(StructLiteral, 1, Len(StructLiteral) - 2)],
     [key |-> "trait",    value |-> TraitLiteral] >>

\*   the enum list without DocumentIdRef
Source_NoDocumentIdRef ==
  << [key |-> "constant", value |-> ConstantLiteral],
     [key |-> "enum",     value |-> SubSeq(EnumLiteral, 1, Len(EnumLiteral) - 1)],
     [key |-> "struct",   value |-> StructLiteral],
     [key |-> "trait",    value |-> TraitLiteral] >>

\*   the trait list without IntoViewPath
Source_NoIntoViewPath ==
  << [key |-> "constant", value |-> ConstantLiteral],
     [key |-> "enum",     value |-> EnumLiteral],
     [key |-> "struct",   value |-> StructLiteral],
     [key |-> "trait",    value |-> SubSeq(TraitLiteral, 1, Len(TraitLiteral) - 1)] >>

\*   the struct list without DocumentPath (its 13th element)
Source_NoDocumentPath ==
  << [key |-> "constant", value |-> ConstantLiteral],
     [key |-> "enum",     value |-> EnumLiteral],
     [key |-> "struct",   value |-> Without(StructLiteral, 13)],
     [key |-> "trait",    value |-> TraitLiteral] >>

\* The object literal: its properties in source order.
Source ==
  << [key |-> "constant", value |-> ConstantLiteral],
     [key |-> "enum",     value |-> EnumLiteral],
     [key |-> "struct",   value |-> StructLiteral],
     [key |-> "trait",    value |-> TraitLiteral] >>

-----------------------------------------------------------------------------
(* Evaluation of the statement.                                            *)

\* The object with property k set to v (a later definition of the same key
\* replaces the earlier one).
Define(obj, k, v) ==
  [x \in (DOMAIN obj) \cup {k} |-> IF x = k THEN v ELSE obj[x]]

\* The array literal being evaluated.
Value == Source[p].value

Init ==
  /\ pc = "key"
  /\ p = 1
  /\ e = 1
  /\ s = 1
  /\ cur = <<>>
  /\ arr = <<>>
  /\ items = <<>>
  /\ calls = <<>>

\* The next property of the object literal: its key is read and its array
\* literal starts empty.
BeginProperty ==
  /\ pc = "key"
  /\ pc' = "elem"
  /\ e' = 1
  /\ s' = 1
  /\ arr' = <<>>
  /\ cur' = <<>>
  /\ UNCHANGED <<p, items, calls>>

\* Fault variant: the element's first string is stored for every string of
\* the element.
EvalString_First ==
  /\ pc = "elem"
  /\ e <= Len(Value)
  /\ s <= Len(Value[e])
  /\ cur' = Append(cur, Value[e][1])
  /\ s' = s + 1
  /\ UNCHANGED <<pc, p, e, arr, items, calls>>

\* The next string literal of the current element (its name, then its
\* description) is evaluated and stored in the element's array.
EvalString ==
  /\ pc = "elem"
  /\ e <= Len(Value)
  /\ s <= Len(Value[e])
  /\ cur' = Append(cur, Value[e][s])
  /\ s' = s + 1
  /\ UNCHANGED <<pc, p, e, arr, items, calls>>

\* Fault variant: the element replaces the array instead of extending it.
PushEntry_Replace ==
  /\ pc = "elem"
  /\ e <= Len(Value)
  /\ s > Len(Value[e])
  /\ arr' = <<cur>>
  /\ cur' = <<>>
  /\ s' = 1
  /\ e' = e + 1
  /\ UNCHANGED <<pc, p, items, calls>>

\* Fault variant: the element is put in front of the array.
PushEntry_Prepend ==
  /\ pc = "elem"
  /\ e <= Len(Value)
  /\ s > Len(Value[e])
  /\ arr' = <<cur>> \o arr
  /\ cur' = <<>>
  /\ s' = 1
  /\ e' = e + 1
  /\ UNCHANGED <<pc, p, items, calls>>

\* The current element is complete: it becomes the next element of the
\* property's array.
PushEntry ==
  /\ pc = "elem"
  /\ e <= Len(Value)
  /\ s > Len(Value[e])
  /\ arr' = Append(arr, cur)
  /\ cur' = <<>>
  /\ s' = 1
  /\ e' = e + 1
  /\ UNCHANGED <<pc, p, items, calls>>

\* Fault variant: every array is stored under the first property's key.
DefineProperty_FirstKey ==
  /\ pc = "elem"
  /\ e > Len(Value)
  /\ items' = Define(items, Source[1].key, arr)
  /\ arr' = <<>>
  /\ IF p < Len(Source)
       THEN /\ p' = p + 1
            /\ pc' = "key"
       ELSE /\ p' = p
            /\ pc' = "call"
  /\ UNCHANGED <<e, s, cur, calls>>

\* The property's array is complete: the property is defined on the object,
\* and evaluation goes on to the next property or, after the last, to the call.
DefineProperty ==
  /\ pc = "elem"
  /\ e > Len(Value)
  /\ items' = Define(items, Source[p].key, arr)
  /\ arr' = <<>>
  /\ IF p < Len(Source)
       THEN /\ p' = p + 1
            /\ pc' = "key"
       ELSE /\ p' = p
            /\ pc' = "call"
  /\ UNCHANGED <<e, s, cur, calls>>

\* Fault variant: the call is made twice.
Call_Twice ==
  /\ pc = "call"
  /\ calls' = calls \o << <<items>>, <<items>> >>
  /\ pc' = "done"
  /\ UNCHANGED <<p, e, s, cur, arr, items>>

\* initSidebarItems is called with the object as its only argument; the
\* statement ends.
Call ==
  /\ pc = "call"
  /\ calls' = Append(calls, <<items>>)
  /\ pc' = "done"
  /\ UNCHANGED <<p, e, s, cur, arr, items>>

Next ==
  \/ BeginProperty
  \/ EvalString
  \/ PushEntry
  \/ DefineProperty
  \/ Call

Spec == Init /\ [][Next]_vars

-----------------------------------------------------------------------------
(* Strings.                                                                *)

StartsWith(t, pre) == Len(pre) <= Len(t) /\ SubSeq(t, 1, Len(pre)) = pre

EndsWith(t, suf) ==
  Len(suf) <= Len(t) /\ SubSeq(t, Len(t) - Len(suf) + 1, Len(t)) = suf

\* t without its last n characters.
DropLast(t, n) == SubSeq(t, 1, Len(t) - n)

\* t without its first n characters.
DropFirst(t, n) == SubSeq(t, n + 1, Len(t))

\* The code unit of a character of the file.
CharCode(c) ==
  CASE c = " " -> 32
    [] c = "," -> 44
    [] c = "-" -> 45
    [] c = "." -> 46
    [] c = "A" -> 65
    [] c = "C" -> 67
    [] c = "D" -> 68
    [] c = "E" -> 69
    [] c = "F" -> 70
    [] c = "G" -> 71
    [] c = "I" -> 73
    [] c = "L" -> 76
    [] c = "N" -> 78
    [] c = "O" -> 79
    [] c = "P" -> 80
    [] c = "R" -> 82
    [] c = "S" -> 83
    [] c = "V" -> 86
    [] c = "W" -> 87
    [] c = "X" -> 88
    [] c = "_" -> 95
    [] c = "a" -> 97
    [] c = "b" -> 98
    [] c = "c" -> 99
    [] c = "d" -> 100
    [] c = "e" -> 101
    [] c = "f" -> 102
    [] c = "g" -> 103
    [] c = "h" -> 104
    [] c = "i" -> 105
    [] c = "l" -> 108
    [] c = "m" -> 109
    [] c = "n" -> 110
    [] c = "o" -> 111
    [] c = "p" -> 112
    [] c = "r" -> 114
    [] c = "s" -> 115
    [] c = "t" -> 116
    [] c = "u" -> 117
    [] c = "v" -> 118
    [] c = "w" -> 119
    [] c = "y" -> 121

\* a sorts strictly before b, comparing code units, a proper prefix first.
StrLess(a, b) ==
  \E i \in 1..(Len(b)) :
    /\ i <= Len(a) + 1
    /\ SubSeq(a, 1, i - 1) = SubSeq(b, 1, i - 1)
    /\ \/ i = Len(a) + 1
       \/ i <= Len(a) /\ CharCode(a[i]) < CharCode(b[i])

sName == <<"N","a","m","e">>
sRef == <<"R","e","f">>
sPath == <<"P","a","t","h">>
sInto == <<"I","n","t","o">>
kAttachment == <<"A","t","t","a","c","h","m","e","n","t">>
kDatabase == <<"D","a","t","a","b","a","s","e">>
kDesignDocument == <<"D","e","s","i","g","n","D","o","c","u","m","e","n","t">>
kDocument == <<"D","o","c","u","m","e","n","t">>
kLocalDocument == <<"L","o","c","a","l","D","o","c","u","m","e","n","t">>
kNormalDocument == <<"N","o","r","m","a","l","D","o","c","u","m","e","n","t">>
kView == <<"V","i","e","w">>
sDocumentId == <<"D","o","c","u","m","e","n","t","I","d">>
sDESIGN_PREFIX == <<"D","E","S","I","G","N","_","P","R","E","F","I","X">>
sLOCAL_PREFIX == <<"L","O","C","A","L","_","P","R","E","F","I","X">>
sVIEW_PREFIX == <<"V","I","E","W","_","P","R","E","F","I","X">>
sHeapAllocated == <<"A"," ","h","e","a","p","-","a","l","l","o","c","a","t","e","d"," ">>
sOwnedInternally == <<" ","n","a","m","e",","," ","o","w","n","e","d"," ","a","n","d"," ","m","a","n","a","g","e","d"," ","i","n","t","e","r","n","a","l","l","y",".">>
sReferenceTo == <<"A"," ","r","e","f","e","r","e","n","c","e"," ","t","o"," ","a"," ">>
sOwnedElsewhere == <<" ","n","a","m","e",","," ","o","w","n","e","d"," ","e","l","s","e","w","h","e","r","e",".">>

-----------------------------------------------------------------------------
(* The manifest as initSidebarItems receives it.                           *)

Called == pc = "done" /\ Len(calls) >= 1 /\ Len(calls[1]) >= 1

Manifest == calls[1][1]

\* The names listed under a category.
Names(cat) == {Manifest[cat][i][1] : i \in DOMAIN Manifest[cat]}

Structs == Names("struct")

\* Every entry of the manifest, as <<category, position>>.
Entries ==
  UNION {{<<cat, i>> : i \in DOMAIN Manifest[cat]} : cat \in DOMAIN Manifest}

\* The value of an object literal: each key with the array of its last
\* definition.
ValueOf(src) ==
  [k \in {src[i].key : i \in DOMAIN src} |->
     src[CHOOSE i \in DOMAIN src :
           /\ src[i].key = k
           /\ \A j \in DOMAIN src : src[j].key = k => j <= i].value]

NameKinds6 ==
  {kDatabase, kLocalDocument, kNormalDocument, kDesignDocument, kView, kAttachment}

PathKinds5 == {kAttachment, kDatabase, kDesignDocument, kDocument, kView}

IsNameType(n) == EndsWith(n, sName) \/ EndsWith(n, sName \o sRef)

-----------------------------------------------------------------------------
(* Properties.                                                             *)

\* C1: for each of the six kinds Database, LocalDocument, NormalDocument,
\* DesignDocument, View and Attachment the struct list holds K+"Name" and
\* K+"NameRef", and every struct ending in "Name" or "NameRef" is one of
\* these twelve.
C1_NamePairs ==
  Called =>
    /\ \A K \in NameKinds6 :
         /\ K \o sName \in Structs
         /\ K \o sName \o sRef \in Structs
    /\ \A n \in Structs :
         IsNameType(n) =>
           \E K \in NameKinds6 : n = K \o sName \/ n = K \o sName \o sRef

C1_Witness ==
  /\ Called
  /\ kView \o sName \o sRef \in Structs
  /\ kLocalDocument \o sName \in Structs

\* C2 as stated: every kind K with a struct K+"Name" also has the structs
\* K+"Path" and K+"PathRef".
C2_PathPerNameKind ==
  Called =>
    \A n \in Structs :
      EndsWith(n, sName) =>
        /\ DropLast(n, Len(sName)) \o sPath \in Structs
        /\ DropLast(n, Len(sName)) \o sPath \o sRef \in Structs

\* C2 as amended: every kind K with a struct K+"Name" also has the structs
\* K+"Path" and K+"PathRef", except LocalDocument and NormalDocument, which
\* have no path types of their own and share DocumentPath and DocumentPathRef.
C2_PathPerNameKindAmended ==
  Called =>
    \A n \in Structs :
      EndsWith(n, sName) =>
        LET K == DropLast(n, Len(sName)) IN
          IF K \in {kLocalDocument, kNormalDocument}
            THEN /\ K \o sPath \notin Structs
                 /\ K \o sPath \o sRef \notin Structs
                 /\ kDocument \o sPath \in Structs
                 /\ kDocument \o sPath \o sRef \in Structs
            ELSE /\ K \o sPath \in Structs
                 /\ K \o sPath \o sRef \in Structs

C2_Witness ==
  /\ Called
  /\ kNormalDocument \o sName \in Structs
  /\ kView \o sName \in Structs
  /\ kView \o sPath \o sRef \in Structs
  /\ kDocument \o sPath \in Structs

\* C3: in the struct list and in the enum list every name X not ending in
\* "Ref" has X+"Ref" in the same list, and every name X+"Ref" has X in the
\* same list.
C3_OwnedAndRef ==
  Called =>
    \A cat \in {"struct", "enum"} :
      \A n \in Names(cat) :
        IF EndsWith(n, sRef)
          THEN DropLast(n, Len(sRef)) \in Names(cat)
          ELSE n \o sRef \in Names(cat)

C3_Witness ==
  /\ Called
  /\ sDocumentId \in Names("enum")
  /\ sDocumentId \o sRef \in Names("enum")
  /\ kDocument \o sPath \o sRef \in Structs

\* C4: the constant list has exactly three entries, DESIGN_PREFIX,
\* LOCAL_PREFIX and VIEW_PREFIX.
C4_ThreeConstants ==
  Called =>
    /\ Len(Manifest["constant"]) = 3
    /\ Names("constant") = {sDESIGN_PREFIX, sLOCAL_PREFIX, sVIEW_PREFIX}

C4_Witness ==
  /\ Called
  /\ Manifest["constant"][3][1] = sVIEW_PREFIX

\* C5: the trait list has exactly five entries, IntoAttachmentPath,
\* IntoDatabasePath, IntoDesignDocumentPath, IntoDocumentPath and
\* IntoViewPath, each of the form "Into"+K+"Path" with K not empty.
C5_FiveIntoTraits ==
  Called =>
    /\ Len(Manifest["trait"]) = 5
    /\ Names("trait") = {sInto \o K \o sPath : K \in PathKinds5}
    /\ \A n \in Names("trait") :
         /\ StartsWith(n, sInto)
         /\ EndsWith(n, sPath)
         /\ Len(n) > Len(sInto) + Len(sPath)

C5_Witness ==
  /\ Called
  /\ Manifest["trait"][5][1] = sInto \o kView \o sPath

\* C6: the manifest has exactly the four categories constant, enum, struct
\* and trait, and its enum list is exactly DocumentId, DocumentIdRef.
C6_EnumsAndCategories ==
  Called =>
    /\ DOMAIN Manifest = {"constant", "enum", "struct", "trait"}
    /\ Len(Manifest["enum"]) = 2
    /\ Names("enum") = {sDocumentId, sDocumentId \o sRef}

C6_Witness ==
  /\ Called
  /\ "enum" \in DOMAIN Manifest
  /\ Manifest["enum"][2][1] = sDocumentId \o sRef

\* The number of steps the evaluation can take next.
EnabledSteps ==
  Cardinality({i \in 1..5 :
     \/ i = 1 /\ ENABLED BeginProperty
     \/ i = 2 /\ ENABLED EvalString
     \/ i = 3 /\ ENABLED PushEntry
     \/ i = 4 /\ ENABLED DefineProperty
     \/ i = 5 /\ ENABLED Call})

\* C7: loading the file makes one call of initSidebarItems and no other: no
\* call happens before the statement ends, exactly one has happened when it
\* has ended, its argument list is the one object the literal denotes, that
\* object is the same after the call as it was passed, and at no point is
\* there a choice between two steps.
C7_SingleCall ==
  /\ Len(calls) = (IF pc = "done" THEN 1 ELSE 0)
  /\ pc = "done" =>
       /\ Len(calls[1]) = 1
       /\ calls[1][1] = ValueOf(Source)
       /\ items = calls[1][1]
  /\ EnabledSteps = (IF pc = "done" THEN 0 ELSE 1)

C7_Witness ==
  /\ pc = "done"
  /\ calls = << <<items>> >>
  /\ Len(items["struct"]) = Len(StructLiteral)

\* C8: every entry is a pair (name, description); the description is not
\* empty exactly for the structs whose name ends in "Name" or "NameRef"; a
\* K+"Name" struct is described as "A heap-allocated ... name, owned and
\* managed internally.", a K+"NameRef" struct as "A reference to a ... name,
\* owned elsewhere."; every other entry has the empty description.
C8_Descriptions ==
  Called =>
    \A en \in Entries :
      LET cat  == en[1]
          item == Manifest[cat][en[2]]
      IN /\ Len(item) = 2
         /\ (item[2] # <<>>) <=> (cat = "struct" /\ IsNameType(item[1]))
         /\ cat = "struct" /\ EndsWith(item[1], sName) =>
              /\ StartsWith(item[2], sHeapAllocated)
              /\ EndsWith(item[2], sOwnedInternally)
         /\ cat = "struct" /\ EndsWith(item[1], sName \o sRef) =>
              /\ StartsWith(item[2], sReferenceTo)
              /\ EndsWith(item[2], sOwnedElsewhere)

C8_Witness ==
  /\ Called
  /\ \E i \in DOMAIN Manifest["struct"] :
       /\ Manifest["struct"][i][1] = kDatabase \o sName
       /\ Manifest["struct"][i][2] # <<>>
  /\ \E i \in DOMAIN Manifest["struct"] :
       /\ Manifest["struct"][i][1] = kDatabase \o sPath
       /\ Manifest["struct"][i][2] = <<>>
  /\ \E i \in DOMAIN Manifest["trait"] : Manifest["trait"][i][2] = <<>>

\* The kinds K with a trait "Into"+K+"Path".
TraitKinds ==
  {DropLast(DropFirst(n, Len(sInto)), Len(sPath)) :
     n \in {m \in Names("trait") : StartsWith(m, sInto) /\ EndsWith(m, sPath)}}

\* The kinds K with a struct K+"Path".
PathKinds ==
  {DropLast(n, Len(sPath)) : n \in {m \in Structs : EndsWith(m, sPath)}}

\* C9: the kinds with a trait "Into"+K+"Path" are the kinds with a struct
\* K+"Path", these are exactly Attachment, Database, DesignDocument, Document
\* and View, and each has its struct K+"PathRef" too.
C9_TraitsMatchPaths ==
  Called =>
    /\ TraitKinds = PathKinds
    /\ PathKinds = PathKinds5
    /\ \A K \in TraitKinds : K \o sPath \o sRef \in Structs

C9_Witness ==
  /\ Called
  /\ sInto \o kDocument \o sPath \in Names("trait")
  /\ kDocument \o sPath \in Structs

\* C10: no name occurs twice in the manifest, in one category or in two, and
\* within each category the names are in strictly ascending order.
C10_UniqueAndSorted ==
  Called =>
    /\ \A x, y \in Entries :
         Manifest[x[1]][x[2]][1] = Manifest[y[1]][y[2]][1] => x = y
    /\ \A cat \in DOMAIN Manifest :
         \A i \in 1..(Len(Manifest[cat]) - 1) :
           StrLess(Manifest[cat][i][1], Manifest[cat][i + 1][1])

C10_Witness ==
  /\ Called
  /\ Len(Manifest["struct"]) = Len(StructLiteral)
  /\ Cardinality(Entries) > Len(StructLiteral)
  /\ StrLess(Manifest["struct"][1][1], Manifest["struct"][2][1])


=============================================================================
